---------------------------- MODULE Spec2Model ----------------------------
(***************************************************************************)
(* Legal-advice API: the safety gate (app/utils/validator.py), the         *)
(* generation service (app/services/llm_service.py) and the request        *)
(* handler (app/api/routes.py).                                            *)
(*                                                                         *)
(* A text is a sequence of characters; a character is a one-character      *)
(* string.  The detectors are the source's algorithms, run on texts over   *)
(* a small alphabet that holds one character of every class the code       *)
(* distinguishes (letter, upper-case letter, leetspeak digit, whitespace,  *)
(* non-word separator, word-character separator).                          *)
(***************************************************************************)
EXTENDS Integers, Sequences, FiniteSets, TLC

(***************************************************************************)
(* Bounds of the exploration.                                              *)
(***************************************************************************)
\* longest text handed to the detectors (SpecDetect)
MaxLen == 5
\* longest input_prompt of a request (Spec)
MaxPromptLen == 3
\* longest text the backend generates (Spec)
MaxReplyLen == 2
\* the window n of ".{0,n}" in the injection patterns (10 in the source),
\* scaled to the lengths of the texts explored
InjectionGap == 1

Alphabet == {"a", "k", "w", "W", "4", " ", "-", "_"}

Texts(n) == UNION {[1..m -> Alphabet] : m \in 0..n}

(***************************************************************************)
(* Character classes of Python's str and re.                               *)
(***************************************************************************)
\* str.lower(), one character
LowerChar(c) ==
    CASE c = "A" -> "a"
      [] c = "K" -> "k"
      [] c = "W" -> "w"
      [] OTHER -> c

\* str.lower()
Lower(s) == [i \in 1..Len(s) |-> LowerChar(s[i])]

\* "U+6CD5" stands for the one character of that code point, a CJK letter
Letters == {"a", "k", "w", "e", "i", "o", "s", "t", "l", "A", "K", "W", "U+6CD5"}
Digits == {"0", "1", "3", "4", "5", "7"}

\* \w of re: a letter, a digit or the underscore
IsWordChar(c) == c \in Letters \cup Digits \cup {"_"}

\* \s of re
IsSpace(c) == c \in {" ", "\t", "\n", "\r"}

\* the class [\s\-_\.] of _check_spacing_evasion
IsSeparator(c) == IsSpace(c) \/ c \in {"-", "_", "."}

\* Python's  sub in s
Contains(s, sub) ==
    \E p \in 1..(Len(s) - Len(sub) + 1) : SubSeq(s, p, p + Len(sub) - 1) = sub

\* the elements of a list, as list(set(...)) leaves them
Range(s) == {s[i] : i \in 1..Len(s)}

(***************************************************************************)
(* The lexicon: the three JSON lists beside validator.py.                  *)
(***************************************************************************)
\* banned_words.json: a single word and a phrase of two words
BannedWordList == << <<"k", "a">>, <<"a", " ", "w">> >>
\* legal_keywords.json
LegalKeywordList == << <<"a", "w">> >>
\* legal_phrases.json
LegalPhraseList == << <<"w", " ", "a">> >>

get_banned_words == BannedWordList
get_legal_keywords == LegalKeywordList
get_legal_phrases == LegalPhraseList

(***************************************************************************)
(* contains_banned_words and its three passes.                             *)
(***************************************************************************)
\* \b of re at the gap after position i (0..Len(s)) of s
WordBoundary(s, i) ==
    LET before == i >= 1 /\ IsWordChar(s[i])
        after == i < Len(s) /\ IsWordChar(s[i + 1])
    IN before # after

\* re.search(r"\b" + re.escape(word) + r"\b", s)
SearchWholeWord(word, s) ==
    \E p \in 1..(Len(s) - Len(word) + 1) :
        /\ SubSeq(s, p, p + Len(word) - 1) = word
        /\ WordBoundary(s, p - 1)
        /\ WordBoundary(s, p + Len(word) - 1)

\* the direct pass of contains_banned_words, on the lowercased text
DirectMatches(text_lower) ==
    {word \in Range(get_banned_words) : SearchWholeWord(Lower(word), text_lower)}

RECURSIVE StripSeparators(_)
\* re.sub(r"[\s\-_\.]+", "", text): every run of separators is deleted
StripSeparators(text) ==
    IF text = <<>> THEN <<>>
    ELSE IF IsSeparator(Head(text)) THEN StripSeparators(Tail(text))
         ELSE <<Head(text)>> \o StripSeparators(Tail(text))

_check_spacing_evasion(text) ==
    LET cleaned_text == StripSeparators(text)
    IN {word \in Range(get_banned_words) : Contains(cleaned_text, Lower(word))}

leet_map ==
    << <<"4", "a">>, <<"@", "a">>, <<"3", "e">>, <<"1", "i">>, <<"!", "i">>,
       <<"0", "o">>, <<"5", "s">>, <<"$", "s">>, <<"7", "t">>, <<"|", "l">> >>

\* str.replace(leet, normal, 1): the first occurrence only
Replace_firstOnly(s, leet, normal) ==
    [i \in 1..Len(s) |->
        IF s[i] = leet /\ (\A j \in 1..(i - 1) : s[j] # leet) THEN normal ELSE s[i]]

\* str.replace(leet, normal), both one character long
Replace(s, leet, normal) == [i \in 1..Len(s) |-> IF s[i] = leet THEN normal ELSE s[i]]

RECURSIVE ReplaceAll(_, _)
\* the loop over leet_map.items(), one replace pass per entry, in order
ReplaceAll(s, map) ==
    IF map = <<>> THEN s
    ELSE ReplaceAll(Replace(s, Head(map)[1], Head(map)[2]), Tail(map))

FoldLeetspeak(text) == ReplaceAll(text, leet_map)

\* the banned words looked up in the text as given, not in the folded text
_check_leetspeak_unfolded(text) ==
    {word \in Range(get_banned_words) : Contains(text, Lower(word))}

\* the folded text searched for whole words, as the direct pass searches
_check_leetspeak_wholeWord(text) ==
    LET normalized_text == FoldLeetspeak(text)
    IN {word \in Range(get_banned_words) : SearchWholeWord(Lower(word), normalized_text)}

_check_leetspeak(text) ==
    LET normalized_text == FoldLeetspeak(text)
    IN {word \in Range(get_banned_words) : Contains(normalized_text, Lower(word))}

\* the separators stripped once, before all passes
contains_banned_words_strippedFirst(text) ==
    LET text_lower == StripSeparators(Lower(text))
    IN DirectMatches(text_lower)
         \cup _check_spacing_evasion(text_lower)
         \cup _check_leetspeak(text_lower)

\* the text searched as given, not lowercased
contains_banned_words_caseSensitive(text) ==
    LET text_lower == text
    IN DirectMatches(text_lower)
         \cup _check_spacing_evasion(text_lower)
         \cup _check_leetspeak(text_lower)

contains_banned_words(text) ==
    LET text_lower == Lower(text)
    IN DirectMatches(text_lower)
         \cup _check_spacing_evasion(text_lower)
         \cup _check_leetspeak(text_lower)

(***************************************************************************)
(* is_legal_topic.                                                         *)
(***************************************************************************)
\* the loop over the phrases left out
is_legal_topic_keywordsOnly(text) ==
    LET legal_keywords == get_legal_keywords
        text_lower == Lower(text)
    IN \E i \in 1..Len(legal_keywords) : Contains(text_lower, Lower(legal_keywords[i]))

\* the terms looked up as whole words, as the direct pass of
\* contains_banned_words does
is_legal_topic_wholeWord(text) ==
    LET legal_keywords == get_legal_keywords
        legal_phrases == get_legal_phrases
        text_lower == Lower(text)
    IN \/ \E i \in 1..Len(legal_keywords) : SearchWholeWord(Lower(legal_keywords[i]), text_lower)
       \/ \E i \in 1..Len(legal_phrases) : SearchWholeWord(Lower(legal_phrases[i]), text_lower)

is_legal_topic(text) ==
    LET legal_keywords == get_legal_keywords
        legal_phrases == get_legal_phrases
        text_lower == Lower(text)
    IN \/ \E i \in 1..Len(legal_keywords) : Contains(text_lower, Lower(legal_keywords[i]))
       \/ \E i \in 1..Len(legal_phrases) : Contains(text_lower, Lower(legal_phrases[i]))

(***************************************************************************)
(* Regular expressions of the shape the injection patterns have: a         *)
(* sequence of items, each ".{0,gap}" followed by one of the alternatives  *)
(* alts (literals).  The first item of a pattern has gap 0.                *)
(***************************************************************************)
\* "." of re: any character but the newline
IsDot(c) == c # "\n"

\* a literal of the pattern against a span of the text, under re.IGNORECASE or not
LiteralMatches(lit, span, ignorecase) ==
    IF ignorecase THEN Lower(lit) = Lower(span) ELSE lit = span

RECURSIVE MatchesAt(_, _, _, _)
\* the pattern matches s from position p on
MatchesAt(pattern, s, p, ignorecase) ==
    IF pattern = <<>> THEN TRUE
    ELSE \E g \in 0..Head(pattern).gap : \E lit \in Head(pattern).alts :
            /\ p + g + Len(lit) - 1 <= Len(s)
            /\ \A i \in p..(p + g - 1) : IsDot(s[i])
            /\ LiteralMatches(lit, SubSeq(s, p + g, p + g + Len(lit) - 1), ignorecase)
            /\ MatchesAt(Tail(pattern), s, p + g + Len(lit), ignorecase)

\* re.search(pattern, s, flags)
re_search(pattern, s, ignorecase) ==
    \E p \in 1..(Len(s) + 1) : MatchesAt(pattern, s, p, ignorecase)

\* injection_patterns, one of each shape: a literal (r"jailbreak") and
\* literal, window, alternatives (r"forget.{0,10}(?:everything|all|what)")
injection_patterns ==
    << << [gap |-> 0, alts |-> {<<"w", "w">>}] >>,
       << [gap |-> 0, alts |-> {<<"k">>}],
          [gap |-> InjectionGap, alts |-> {<<"k">>, <<"w">>}] >> >>

\* the loop over injection_patterns of validate_input_safety
InjectionDetected_caseSensitive(text) ==
    \E i \in 1..Len(injection_patterns) : re_search(injection_patterns[i], text, FALSE)

InjectionDetected(text) ==
    \E i \in 1..Len(injection_patterns) : re_search(injection_patterns[i], text, TRUE)

(***************************************************************************)
(* validate_input_safety: (is_safe, banned_words_found, reason).           *)
(***************************************************************************)
BANNED_CONTENT == "Contains banned words"
OFF_TOPIC == "Off-topic request"
INJECTION_DETECTED == "Potential prompt injection detected"
SAFE == "Input is safe and relevant"

Verdict(is_safe, found, reason) ==
    [is_safe |-> is_safe, banned_words_found |-> found, reason |-> reason]

\* the relevance check run before the banned-content check
validate_input_safety_topicFirst(text) ==
    LET banned_words_found == contains_banned_words(text)
    IN IF ~is_legal_topic(text) THEN Verdict(FALSE, {}, OFF_TOPIC)
       ELSE IF banned_words_found # {} THEN Verdict(FALSE, banned_words_found, BANNED_CONTENT)
       ELSE IF InjectionDetected(text) THEN Verdict(FALSE, {}, INJECTION_DETECTED)
       ELSE Verdict(TRUE, {}, SAFE)

\* the injection check run before the relevance check
validate_input_safety_injectionFirst(text) ==
    LET banned_words_found == contains_banned_words(text)
    IN IF banned_words_found # {} THEN Verdict(FALSE, banned_words_found, BANNED_CONTENT)
       ELSE IF InjectionDetected(text) THEN Verdict(FALSE, {}, INJECTION_DETECTED)
       ELSE IF ~is_legal_topic(text) THEN Verdict(FALSE, {}, OFF_TOPIC)
       ELSE Verdict(TRUE, {}, SAFE)

validate_input_safety(text) ==
    LET banned_words_found == contains_banned_words(text)
    IN IF banned_words_found # {} THEN Verdict(FALSE, banned_words_found, BANNED_CONTENT)
       ELSE IF ~is_legal_topic(text) THEN Verdict(FALSE, {}, OFF_TOPIC)
       ELSE IF InjectionDetected(text) THEN Verdict(FALSE, {}, INJECTION_DETECTED)
       ELSE Verdict(TRUE, {}, SAFE)

(***************************************************************************)
(* Request intake: LegalAdviceRequest.validate_input_prompt.               *)
(***************************************************************************)
\* settings.MAX_INPUT_LENGTH is 20000; here scaled down, so that texts at and
\* beyond the limit can be enumerated
MAX_INPUT_LENGTH == 3

RECURSIVE LStrip(_)
LStrip(s) == IF s # <<>> /\ IsSpace(Head(s)) THEN LStrip(Tail(s)) ELSE s

RECURSIVE RStrip(_)
RStrip(s) ==
    IF s # <<>> /\ IsSpace(s[Len(s)]) THEN RStrip(SubSeq(s, 1, Len(s) - 1)) ELSE s

\* str.strip()
Strip(s) == RStrip(LStrip(s))

Literal(lit) == << [gap |-> 0, alts |-> {lit}] >>

suspicious_patterns ==
    << Literal(<<"<", "s", "c", "r", "i", "p", "t">>),
       Literal(<<"j", "a", "v", "a", "s", "c", "r", "i", "p", "t", ":">>),
       Literal(<<"d", "a", "t", "a", ":">>),
       Literal(<<"v", "b", "s", "c", "r", "i", "p", "t", ":">>),
       Literal(<<"o", "n", "l", "o", "a", "d", "=">>),
       Literal(<<"o", "n", "e", "r", "r", "o", "r", "=">>),
       Literal(<<"<", "i", "f", "r", "a", "m", "e">>),
       Literal(<<"<", "o", "b", "j", "e", "c", "t">>),
       Literal(<<"<", "e", "m", "b", "e", "d">>) >>

\* the validated input_prompt, or the ValueError that makes the request a 422
validate_input_prompt(raw) ==
    LET v == Strip(raw)
    IN IF v = <<>> THEN [ok |-> FALSE, value |-> v]
       ELSE IF Len(v) > MAX_INPUT_LENGTH THEN [ok |-> FALSE, value |-> v]
       ELSE IF \E i \in 1..Len(suspicious_patterns) : re_search(suspicious_patterns[i], v, TRUE)
            THEN [ok |-> FALSE, value |-> v]
       ELSE [ok |-> TRUE, value |-> v]

\* the class [a-zA-Z0-9_-] of validate_user_id
IsUserIdChar(c) == c \in (Letters \ {"U+6CD5"}) \cup Digits \cup {"_", "-"}

\* re.match(r"^[a-zA-Z0-9_-]+$", v): "$" matches at the end of v and also
\* before a newline that ends v
user_id_matches(v) ==
    \E e \in 1..Len(v) :
        /\ \A i \in 1..e : IsUserIdChar(v[i])
        /\ e = Len(v) \/ (e = Len(v) - 1 /\ v[Len(v)] = "\n")

\* the validated user_id, or the ValueError that makes the request a 422
validate_user_id(v) == [ok |-> user_id_matches(v), value |-> v]

\* LegalAdviceRequest(user_id=..., input_prompt=...): the Field constraints,
\* then the validator of each field; the body is accepted when no field fails
LegalAdviceRequest(user_id, input_prompt) ==
    LET u == IF Len(user_id) < 1 \/ Len(user_id) > 100 THEN [ok |-> FALSE, value |-> user_id]
             ELSE validate_user_id(user_id)
        p == IF Len(input_prompt) < 1 THEN [ok |-> FALSE, value |-> input_prompt]
             ELSE validate_input_prompt(input_prompt)
    IN [accepted |-> u.ok /\ p.ok,
        status_code |-> IF u.ok /\ p.ok THEN 0 ELSE 422,
        user_id |-> u.value,
        input_prompt |-> p.value]

\* no request body parsed yet
NotParsed == [accepted |-> FALSE, status_code |-> 0, user_id |-> <<>>, input_prompt |-> <<>>]

(***************************************************************************)
(* The lexicon getters as the handler reaches them: lru_cache around       *)
(* load_word_list.                                                         *)
(***************************************************************************)
BANNED_WORDS_JSON == "banned_words.json"
LEGAL_KEYWORDS_JSON == "legal_keywords.json"
LEGAL_PHRASES_JSON == "legal_phrases.json"

LexiconFiles == {BANNED_WORDS_JSON, LEGAL_KEYWORDS_JSON, LEGAL_PHRASES_JSON}

\* what open() and json.load() find: the list, no file, or text that is not JSON
SourceStates == {"ok", "missing", "malformed"}

\* load_word_list returns the data exactly when the file is there and parses
load_word_list_ok(source) == source = "ok"

\* the files validate_input_safety reads for this text, in the order of its calls:
\* contains_banned_words first, is_legal_topic only when nothing banned was found
FilesRead(text) ==
    IF contains_banned_words(text) # {} THEN <<BANNED_WORDS_JSON>>
    ELSE <<BANNED_WORDS_JSON, LEGAL_KEYWORDS_JSON, LEGAL_PHRASES_JSON>>

RECURSIVE CallGetters(_, _, _)
\* the getters called in order: a cached list is returned without a read, a miss
\* calls load_word_list, whose exception ends the calls and is not cached
CallGetters(c, src, files) ==
    IF files = <<>> THEN [cache |-> c, raised |-> FALSE]
    ELSE LET f == Head(files)
         IN IF c[f] THEN CallGetters(c, src, Tail(files))
            ELSE IF load_word_list_ok(src[f])
                 THEN CallGetters([c EXCEPT ![f] = TRUE], src, Tail(files))
            ELSE [cache |-> c, raised |-> TRUE]

(***************************************************************************)
(* LLMService.generate_response, from the outcome of _call_openai on.      *)
(***************************************************************************)
OPENAI_MODEL == "gpt-4-turbo"
RESPONSE_VALIDATION_FAILED == "response_validation_failed"
APOLOGY_REJECTED == "I'm sorry, I cannot provide a response to that request."
APOLOGY_UNABLE == "I'm sorry, I'm unable to process your request at this time."

\* str(e) of the exceptions the backend call raises
ErrorMessages == {"API Error", "Request timed out.", RESPONSE_VALIDATION_FAILED}

NoCall == [kind |-> "none"]
Returned(generated) == [kind |-> "returned", generated |-> generated]
Raised(message) == [kind |-> "raised", message |-> message]

\* the dictionary _call_openai returns
_call_openai(generated) ==
    [content |-> Strip(generated), model |-> OPENAI_MODEL, usage |-> "usage"]

generate_response_unchecked(outcome) ==
    IF outcome.kind = "raised"
    THEN [content |-> APOLOGY_UNABLE, model |-> "error", error |-> outcome.message]
    ELSE _call_openai(outcome.generated)

\* the whole gate applied to the reply, not the banned-word check alone
generate_response_gated(outcome) ==
    IF outcome.kind = "raised"
    THEN [content |-> APOLOGY_UNABLE, model |-> "error", error |-> outcome.message]
    ELSE LET response == _call_openai(outcome.generated)
             checked == validate_input_safety(response.content)
         IN IF ~checked.is_safe
            THEN [content |-> APOLOGY_REJECTED,
                  model |-> response.model,
                  error |-> RESPONSE_VALIDATION_FAILED,
                  banned_words |-> checked.banned_words_found]
            ELSE response

generate_response(outcome) ==
    IF outcome.kind = "raised"
    THEN [content |-> APOLOGY_UNABLE, model |-> "error", error |-> outcome.message]
    ELSE LET response == _call_openai(outcome.generated)
             banned_words_in_response == contains_banned_words(response.content)
         IN IF banned_words_in_response # {}
            THEN [content |-> APOLOGY_REJECTED,
                  model |-> response.model,
                  error |-> RESPONSE_VALIDATION_FAILED,
                  banned_words |-> banned_words_in_response]
            ELSE response

(***************************************************************************)
(* get_legal_advice: the responses of the endpoint.                        *)
(***************************************************************************)
OFF_TOPIC_RESPONSE ==
    "I'm here to assist only with general legal questions. Your request appears to be outside the supported scope."
REJECTED_RISKY_INPUT_RESPONSE ==
    "Your request contains language that cannot be processed due to policy restrictions."

\* JSONResponse(status_code, ValidationErrorResponse(...))
ValidationErrorResponse(status_code, error, detail, banned_words_found) ==
    [status_code |-> status_code,
     body |-> [error |-> error, detail |-> detail,
               banned_words_found |-> banned_words_found,
               status |-> "validation_error"]]

\* JSONResponse(status_code, ErrorResponse(...))
ErrorResponse(status_code, error, detail) ==
    [status_code |-> status_code,
     body |-> [error |-> error, detail |-> detail, status |-> "error"]]

\* LegalAdviceResponse(...), sent with status 200
LegalAdviceResponse(advice, model_used) ==
    [status_code |-> 200,
     body |-> [advice |-> advice, model_used |-> model_used, status |-> "success"]]

\* FastAPI's answer to a request whose body fails validation
UnprocessableEntity == [status_code |-> 422, body |-> [status |-> "unprocessable"]]

\* An exception inside the handler's try: the except branch builds
\* JSONResponse(content=ErrorResponse(...).dict()), whose timestamp is a
\* datetime that the JSON rendering does not take, so the except branch raises
\* in its turn and global_exception_handler of main.py answers.
InternalServerError ==
    [status_code |-> 500,
     body |-> [error |-> "Internal server error", detail |-> "An unexpected error occurred"]]

\* Optional[List[str]] = None
None == {"None"}

\* "if not is_safe"
GateRejects_bannedOnly(verdict) == verdict.banned_words_found # {}

GateRejects(verdict) == ~verdict.is_safe

\* the rejections answered 400, as tests/adversarial_inputs.py expects
RejectionResponse_badRequest(verdict) ==
    IF verdict.banned_words_found # {}
    THEN ValidationErrorResponse(400, "Request contains prohibited contents",
                                 REJECTED_RISKY_INPUT_RESPONSE, verdict.banned_words_found)
    ELSE ErrorResponse(400, "Request outside supported scope", OFF_TOPIC_RESPONSE)

\* a rejection for injection told apart from an off-topic rejection
RejectionResponse_byReason(verdict) ==
    IF verdict.banned_words_found # {}
    THEN ValidationErrorResponse(403, "Request contains prohibited contents",
                                 REJECTED_RISKY_INPUT_RESPONSE, verdict.banned_words_found)
    ELSE IF verdict.reason = INJECTION_DETECTED
         THEN ErrorResponse(403, "Potential prompt injection detected", INJECTION_DETECTED)
         ELSE ErrorResponse(403, "Request outside supported scope", OFF_TOPIC_RESPONSE)

\* the response to a rejecting verdict
RejectionResponse(verdict) ==
    IF verdict.banned_words_found # {}
    THEN ValidationErrorResponse(403, "Request contains prohibited contents",
                                 REJECTED_RISKY_INPUT_RESPONSE, verdict.banned_words_found)
    ELSE ErrorResponse(403, "Request outside supported scope", OFF_TOPIC_RESPONSE)

\* response_data.get('banned_words', [])
GetBannedWords(response_data) ==
    IF "banned_words" \in DOMAIN response_data THEN response_data.banned_words ELSE {}

\* the error key not looked at: whatever generate_response returned is sent as advice
GenerationResponse_unconditional(response_data) ==
    LegalAdviceResponse(response_data.content, response_data.model)

\* the response to the dictionary generate_response returned
GenerationResponse(response_data) ==
    IF "error" \in DOMAIN response_data
    THEN IF response_data.error = RESPONSE_VALIDATION_FAILED
         THEN ValidationErrorResponse(500, "Response validation failed",
                                      "Generated response contains prohibited content",
                                      GetBannedWords(response_data))
         ELSE ValidationErrorResponse(500, "Service temporarily unavailable",
                                      "Unable to process request at this time", None)
    ELSE LegalAdviceResponse(response_data.content, response_data.model)

(***************************************************************************)
(* SpecLexicon: the lexicon getters called from several threads of one     *)
(* process.  functools.lru_cache looks the key up under its lock, calls    *)
(* the wrapped function outside the lock on a miss, and stores the result  *)
(* under the lock unless the key was stored meanwhile; an exception of the *)
(* wrapped function propagates and nothing is stored.                      *)
(***************************************************************************)
MaxEdits == 1

\* the threads of the process that call into validator.py
Threads == {"t1", "t2"}

\* what a lexicon file may hold: the list, the JSON text [], nothing at
\* all (no file), or text that is not JSON
SourceValues == {"ok", "empty", "missing", "malformed"}

\* the list objects: the n-th list that load_word_list built from a file
NotCached == [file |-> "none", id |-> 0, data |-> "none"]
ListObject(f, n, data) == [file |-> f, id |-> n, data |-> data]

\* the JSONDecodeError swallowed and an empty list returned
load_word_list_swallowed(source) ==
    IF source = "missing" THEN [raised |-> TRUE, error |-> "FileNotFoundError", data |-> "none"]
    ELSE IF source = "malformed" THEN [raised |-> FALSE, error |-> "none", data |-> "empty"]
    ELSE [raised |-> FALSE, error |-> "none", data |-> source]

\* the exceptions swallowed and an empty list returned in their place, which
\* the getter's cache then keeps
load_word_list_defaulted(source) ==
    IF source \in {"missing", "malformed"}
    THEN [raised |-> FALSE, error |-> "none", data |-> "empty"]
    ELSE [raised |-> FALSE, error |-> "none", data |-> source]

\* load_word_list: json.load's value whatever it holds, or the exception
load_word_list(source) ==
    IF source = "missing" THEN [raised |-> TRUE, error |-> "FileNotFoundError", data |-> "none"]
    ELSE IF source = "malformed" THEN [raised |-> TRUE, error |-> "ValueError", data |-> "none"]
    ELSE [raised |-> FALSE, error |-> "none", data |-> source]

\* lru_cache's lookup: a hit when the key is in the cache
CacheHit(entry) == entry # NotCached

\* the result stored whether or not another call stored one meanwhile
CacheAfterStore_overwrite(entry, result) == result

\* lru_cache's store after the call: the entry another call stored meanwhile stays
CacheAfterStore(entry, result) == IF entry # NotCached THEN entry ELSE result

\* the three passes of contains_banned_words, each with its own call of
\* get_banned_words
BannedPass(i, text_lower) ==
    CASE i = 1 -> DirectMatches(text_lower)
      [] i = 2 -> _check_spacing_evasion(text_lower)
      [] OTHER -> _check_leetspeak(text_lower)

BannedCalls == <<BANNED_WORDS_JSON, BANNED_WORDS_JSON, BANNED_WORDS_JSON>>
TopicCalls == <<LEGAL_KEYWORDS_JSON, LEGAL_PHRASES_JSON>>

\* the texts validate_input_safety is called with: the empty string, a text
\* with a banned word, and a text of one non-Latin letter
CallTexts == {<<>>, <<"k", "a">>, <<"U+6CD5">>}

IdleThread ==
    [pc |-> "idle", text |-> <<>>, calls |-> <<>>, pass |-> 0, found |-> FALSE,
     result |-> NotCached, read |-> "none", out |-> "none", status_code |-> 0]

(***************************************************************************)
(* The state.                                                              *)
(***************************************************************************)
NoVerdict == Verdict(FALSE, {}, "none")
NoResponse == [status_code |-> 0, body |-> [status |-> "none"]]
NoData == [model |-> "none"]

VARIABLES
    pc,             \* where the handler of the current request stands
    cache,          \* which getters hold a cached list
    input_prompt,   \* request.input_prompt, as validated by the intake
    verdict,        \* what validate_input_safety returned for it
    backend,        \* the outcome of the backend call of this request
    backend_calls,  \* how often this request called the backend
    response_data,  \* what generate_response returned
    response,       \* the response sent
    d_text,         \* SpecDetect: the text
    d_fn,           \* SpecDetect: the function applied to it
    d_out,          \* SpecDetect: what it returned
    l_phase,        \* SpecLexicon: "starting" until the lifespan's startup part has run
    l_boot_bad,     \* SpecLexicon: the files missing or malformed when startup ended
    l_source,       \* SpecLexicon: what each lexicon file holds now
    l_edits,        \* SpecLexicon: how often a file was changed
    l_cache,        \* SpecLexicon: the lru_cache of each getter
    l_loaded,       \* SpecLexicon: how many list objects load_word_list built per file
    l_th,           \* SpecLexicon: each thread's position in validate_input_safety
    i_user_id,      \* SpecIntake: the user_id of the request body
    i_prompt,       \* SpecIntake: the input_prompt of the request body
    i_out           \* SpecIntake: what LegalAdviceRequest made of them

api_vars == <<pc, cache, input_prompt, verdict, backend, backend_calls, response_data, response>>
detect_vars == <<d_text, d_fn, d_out>>
lex_vars == <<l_phase, l_boot_bad, l_source, l_edits, l_cache, l_loaded, l_th>>
intake_vars == <<i_user_id, i_prompt, i_out>>
vars == <<api_vars, detect_vars, lex_vars, intake_vars>>

ApiInit ==
    /\ pc = "idle"
    /\ cache = [f \in LexiconFiles |-> FALSE]
    /\ input_prompt = <<>>
    /\ verdict = NoVerdict
    /\ backend = NoCall
    /\ backend_calls = 0
    /\ response_data = NoData
    /\ response = NoResponse

DetectIdle ==
    /\ d_text = <<>>
    /\ d_fn = "none"
    /\ d_out = {}

LexiconIdle ==
    /\ l_phase = "starting"
    /\ l_boot_bad = {}
    /\ l_source = [f \in LexiconFiles |-> "ok"]
    /\ l_edits = 0
    /\ l_cache = [f \in LexiconFiles |-> NotCached]
    /\ l_loaded = [f \in LexiconFiles |-> 0]
    /\ l_th = [t \in Threads |-> IdleThread]

IntakeIdle ==
    /\ i_user_id = <<>>
    /\ i_prompt = <<>>
    /\ i_out = NotParsed

(***************************************************************************)
(* Spec: the endpoint POST /legal-advice, one request after the other.     *)
(***************************************************************************)
Init ==
    /\ ApiInit
    /\ DetectIdle
    /\ LexiconIdle
    /\ IntakeIdle

\* the request body is validated before the handler runs: a body that fails
\* is answered 422 and never reaches the handler
Receive(raw) ==
    /\ pc = "idle"
    /\ LET validated == validate_input_prompt(raw)
       IN IF validated.ok
          THEN /\ input_prompt' = validated.value
               /\ pc' = "handler"
               /\ UNCHANGED response
          ELSE /\ response' = UnprocessableEntity
               /\ pc' = "responded"
               /\ UNCHANGED input_prompt
    /\ UNCHANGED <<cache, verdict, backend, backend_calls, response_data>>
    /\ UNCHANGED <<detect_vars, lex_vars, intake_vars>>

\* the states of the lexicon files a request can meet; a file whose list is
\* cached is not read
SourcesRead(c) == {src \in [LexiconFiles -> SourceStates] : \A f \in LexiconFiles : c[f] => src[f] = "ok"}

\* get_legal_advice up to the await of generate_response; src is the state of
\* the lexicon files when the getters read them
Handle(src) ==
    /\ pc = "handler"
    /\ LET got == CallGetters(cache, src, FilesRead(input_prompt))
           v == validate_input_safety(input_prompt)
       IN /\ cache' = got.cache
          /\ IF got.raised
             THEN /\ verdict' = NoVerdict
                  /\ response' = InternalServerError
                  /\ pc' = "responded"
                  /\ UNCHANGED <<backend, backend_calls>>
             ELSE /\ verdict' = v
                  /\ IF GateRejects(v)
                     THEN /\ response' = RejectionResponse(v)
                          /\ pc' = "responded"
                          /\ UNCHANGED <<backend, backend_calls>>
                     ELSE /\ pc' = "backend"
                          /\ backend_calls' = backend_calls + 1
                          /\ UNCHANGED <<backend, response>>
    /\ UNCHANGED <<input_prompt, response_data>>
    /\ UNCHANGED <<detect_vars, lex_vars, intake_vars>>

\* the rest of generate_response and of the handler, once the backend call ended
Complete(outcome) ==
    /\ backend' = outcome
    /\ response_data' = generate_response(outcome)
    /\ response' = GenerationResponse(generate_response(outcome))
    /\ pc' = "responded"
    /\ UNCHANGED <<cache, input_prompt, verdict, backend_calls>>
    /\ UNCHANGED <<detect_vars, lex_vars, intake_vars>>

\* client.chat.completions.create returns a completion
BackendReturns(generated) ==
    /\ pc = "backend"
    /\ Complete(Returned(generated))

\* client.chat.completions.create raises
BackendRaises(message) ==
    /\ pc = "backend"
    /\ Complete(Raised(message))

\* the response is out; the process waits for the next request
NextRequest ==
    /\ pc = "responded"
    /\ pc' = "idle"
    /\ input_prompt' = <<>>
    /\ verdict' = NoVerdict
    /\ backend' = NoCall
    /\ backend_calls' = 0
    /\ response_data' = NoData
    /\ response' = NoResponse
    /\ UNCHANGED cache
    /\ UNCHANGED <<detect_vars, lex_vars, intake_vars>>

Next ==
    \/ \E raw \in Texts(MaxPromptLen) : Receive(raw)
    \/ \E src \in SourcesRead(cache) : Handle(src)
    \/ \E generated \in Texts(MaxReplyLen) : BackendReturns(generated)
    \/ \E message \in ErrorMessages : BackendRaises(message)
    \/ NextRequest

Spec == Init /\ [][Next]_vars

(***************************************************************************)
(* SpecDetect: the detectors as pure functions, applied to every text of   *)
(* at most MaxLen characters.                                              *)
(***************************************************************************)
InitDetect ==
    /\ ApiInit
    /\ d_text \in Texts(MaxLen)
    /\ d_fn = "none"
    /\ d_out = {}
    /\ LexiconIdle
    /\ IntakeIdle

CallContainsBannedWords ==
    /\ d_fn = "none"
    /\ d_fn' = "contains_banned_words"
    /\ d_out' = contains_banned_words(d_text)
    /\ UNCHANGED <<d_text, api_vars, lex_vars, intake_vars>>

CallIsLegalTopic ==
    /\ d_fn = "none"
    /\ d_fn' = "is_legal_topic"
    /\ d_out' = is_legal_topic(d_text)
    /\ UNCHANGED <<d_text, api_vars, lex_vars, intake_vars>>

CallValidateInputSafety ==
    /\ d_fn = "none"
    /\ d_fn' = "validate_input_safety"
    /\ d_out' = validate_input_safety(d_text)
    /\ UNCHANGED <<d_text, api_vars, lex_vars, intake_vars>>

NextDetect ==
    \/ CallContainsBannedWords
    \/ CallIsLegalTopic
    \/ CallValidateInputSafety

SpecDetect == InitDetect /\ [][NextDetect]_vars

(***************************************************************************)
(* SpecLexicon: the actions.  A thread calls validate_input_safety, which  *)
(* calls get_banned_words once in each pass of contains_banned_words and,  *)
(* when no pass found a word, get_legal_keywords and get_legal_phrases.    *)
(***************************************************************************)
InitLexicon ==
    /\ ApiInit
    /\ DetectIdle
    /\ LexiconIdle
    /\ IntakeIdle

\* main.py lifespan, the part before yield: two log lines
Startup ==
    /\ l_phase = "starting"
    /\ l_phase' = "serving"
    /\ l_boot_bad' = {f \in LexiconFiles : l_source[f] \in {"missing", "malformed"}}
    /\ UNCHANGED <<l_source, l_edits, l_cache, l_loaded, l_th>>
    /\ UNCHANGED <<api_vars, detect_vars, intake_vars>>

\* somebody replaces, empties, removes or damages a lexicon file
EditSource(f, v) ==
    /\ l_edits < MaxEdits
    /\ l_source[f] # v
    /\ l_source' = [l_source EXCEPT ![f] = v]
    /\ l_edits' = l_edits + 1
    /\ UNCHANGED <<l_phase, l_boot_bad, l_cache, l_loaded, l_th>>
    /\ UNCHANGED <<api_vars, detect_vars, intake_vars>>

\* a thread of the serving process enters validate_input_safety(text)
CallValidate(t, text) ==
    /\ l_phase = "serving"
    /\ l_th[t].pc = "idle"
    /\ l_th' = [l_th EXCEPT ![t] =
                  [IdleThread EXCEPT !.pc = "lookup", !.text = text, !.calls = BannedCalls]]
    /\ UNCHANGED <<l_phase, l_boot_bad, l_source, l_edits, l_cache, l_loaded>>
    /\ UNCHANGED <<api_vars, detect_vars, intake_vars>>

\* the thread after a getter returned result to it: the pass of
\* contains_banned_words that made the call runs on the list, and the next
\* getter is called or validate_input_safety returns its verdict
AfterReturn(th, result) ==
    LET f == Head(th.calls)
        rest == Tail(th.calls)
        pass == IF f = BANNED_WORDS_JSON THEN th.pass + 1 ELSE th.pass
        found == \/ th.found
                 \/ /\ f = BANNED_WORDS_JSON
                    /\ result.data = "ok"
                    /\ BannedPass(pass, Lower(th.text)) # {}
        returned == [th EXCEPT !.result = result, !.pass = pass, !.found = found]
    IN IF rest # <<>> THEN [returned EXCEPT !.pc = "lookup", !.calls = rest]
       ELSE IF f = BANNED_WORDS_JSON /\ ~found
            THEN [returned EXCEPT !.pc = "lookup", !.calls = TopicCalls]
       ELSE [returned EXCEPT !.pc = "done", !.calls = <<>>, !.out = "verdict"]

\* lru_cache's wrapper looks the key up
CacheLookup(t) ==
    /\ l_th[t].pc = "lookup"
    /\ LET f == Head(l_th[t].calls)
       IN l_th' = [l_th EXCEPT ![t] =
                     IF CacheHit(l_cache[f]) THEN AfterReturn(@, l_cache[f])
                     ELSE [@ EXCEPT !.pc = "load"]]
    /\ UNCHANGED <<l_phase, l_boot_bad, l_source, l_edits, l_cache, l_loaded>>
    /\ UNCHANGED <<api_vars, detect_vars, intake_vars>>

\* the miss calls the getter's body: load_word_list reads the file; what it
\* raises leaves the getter and validate_input_safety and is answered by the
\* endpoint
LoadWordList(t) ==
    /\ l_th[t].pc = "load"
    /\ LET f == Head(l_th[t].calls)
           loaded == load_word_list(l_source[f])
       IN IF loaded.raised
          THEN /\ l_th' = [l_th EXCEPT ![t] =
                             [@ EXCEPT !.pc = "done", !.read = l_source[f], !.out = "raised",
                                       !.status_code = InternalServerError.status_code]]
               /\ UNCHANGED l_loaded
          ELSE /\ l_loaded' = [l_loaded EXCEPT ![f] = @ + 1]
               /\ l_th' = [l_th EXCEPT ![t] =
                             [@ EXCEPT !.pc = "store", !.read = l_source[f],
                                       !.result = ListObject(f, l_loaded[f] + 1, loaded.data)]]
    /\ UNCHANGED <<l_phase, l_boot_bad, l_source, l_edits, l_cache>>
    /\ UNCHANGED <<api_vars, detect_vars, intake_vars>>

\* lru_cache's wrapper stores the result and returns it
CacheStore(t) ==
    /\ l_th[t].pc = "store"
    /\ LET f == Head(l_th[t].calls)
       IN /\ l_cache' = [l_cache EXCEPT ![f] = CacheAfterStore(@, l_th[t].result)]
          /\ l_th' = [l_th EXCEPT ![t] = AfterReturn(@, l_th[t].result)]
    /\ UNCHANGED <<l_phase, l_boot_bad, l_source, l_edits, l_loaded>>
    /\ UNCHANGED <<api_vars, detect_vars, intake_vars>>

\* the caller has the verdict or the exception; the thread is free again
Finish(t) ==
    /\ l_th[t].pc = "done"
    /\ l_th' = [l_th EXCEPT ![t] = IdleThread]
    /\ UNCHANGED <<l_phase, l_boot_bad, l_source, l_edits, l_cache, l_loaded>>
    /\ UNCHANGED <<api_vars, detect_vars, intake_vars>>

NextLexicon ==
    \/ Startup
    \/ \E f \in LexiconFiles, v \in SourceValues : EditSource(f, v)
    \/ \E t \in Threads, text \in CallTexts : CallValidate(t, text)
    \/ \E t \in Threads : CacheLookup(t)
    \/ \E t \in Threads : LoadWordList(t)
    \/ \E t \in Threads : CacheStore(t)
    \/ \E t \in Threads : Finish(t)

SpecLexicon == InitLexicon /\ [][NextLexicon]_vars

(***************************************************************************)
(* The same getters with a repair of the source: a file that was emptied,  *)
(* removed or damaged is put back while the process serves.  One text, on  *)
(* which validate_input_safety calls all three getters.                    *)
(***************************************************************************)
ReloadTexts == {<<>>}

\* somebody puts a lexicon file back
RepairSource(f) ==
    /\ l_source[f] # "ok"
    /\ l_source' = [l_source EXCEPT ![f] = "ok"]
    /\ UNCHANGED <<l_phase, l_boot_bad, l_edits, l_cache, l_loaded, l_th>>
    /\ UNCHANGED <<api_vars, detect_vars, intake_vars>>

NextReload ==
    \/ Startup
    \/ \E f \in LexiconFiles, v \in SourceValues : EditSource(f, v)
    \/ \E f \in LexiconFiles : RepairSource(f)
    \/ \E t \in Threads, text \in ReloadTexts : CallValidate(t, text)
    \/ \E t \in Threads : CacheLookup(t)
    \/ \E t \in Threads : LoadWordList(t)
    \/ \E t \in Threads : CacheStore(t)
    \/ \E t \in Threads : Finish(t)

SpecReload == InitLexicon /\ [][NextReload]_vars

(***************************************************************************)
(* SpecIntake: LegalAdviceRequest built from a request body, for every     *)
(* user_id of at most MaxUserIdLen characters and every input_prompt of    *)
(* letters and blanks up to two characters longer than MAX_INPUT_LENGTH.   *)
(***************************************************************************)
MaxUserIdLen == 2

UserIdAlphabet == {"a", "4", "-", "_", "!", "\n"}
UserIds == UNION {[1..m -> UserIdAlphabet] : m \in 0..MaxUserIdLen}

IntakeAlphabet == {"a", " "}
IntakePrompts == UNION {[1..m -> IntakeAlphabet] : m \in 0..(MAX_INPUT_LENGTH + 2)}

InitIntake ==
    /\ ApiInit
    /\ DetectIdle
    /\ LexiconIdle
    /\ i_user_id \in UserIds
    /\ i_prompt \in IntakePrompts
    /\ i_out = NotParsed

\* FastAPI builds the request model from the body; a body that fails is
\* answered 422 and the handler is not called
ParseRequest ==
    /\ i_out = NotParsed
    /\ i_out' = LegalAdviceRequest(i_user_id, i_prompt)
    /\ UNCHANGED <<i_user_id, i_prompt>>
    /\ UNCHANGED <<api_vars, detect_vars, lex_vars>>

NextIntake == ParseRequest

SpecIntake == InitIntake /\ [][NextIntake]_vars

(***************************************************************************)
(* Properties of the safety gate (SpecDetect).                             *)
(***************************************************************************)
BannedWords == Range(get_banned_words)

\* the lowercased text holds a topic keyword or a topic phrase
HasTopicTerm(text) ==
    \E term \in Range(get_legal_keywords) \cup Range(get_legal_phrases) :
        Contains(Lower(text), term)

\* some injection pattern matches the raw text, case-insensitively
MatchesInjectionPattern(text) ==
    \E i \in 1..Len(injection_patterns) : re_search(injection_patterns[i], text, TRUE)

Validated == d_fn = "validate_input_safety"
Detected == d_fn = "contains_banned_words"

\* C1: a text in which the detector finds a disallowed term is rejected with
\* reason BANNED_CONTENT and matched_terms equal to the detector's matches,
\* whatever the relevance check and the injection check would say.
C1_BannedContentFirst ==
    (Validated /\ contains_banned_words(d_text) # {}) =>
        d_out = Verdict(FALSE, contains_banned_words(d_text), BANNED_CONTENT)

\* a text with a disallowed term, a topic keyword and an injection match
C1_Witness ==
    /\ Validated
    /\ contains_banned_words(d_text) # {}
    /\ HasTopicTerm(d_text)
    /\ MatchesInjectionPattern(d_text)
    /\ d_out.reason = BANNED_CONTENT

\* C5: a text with no disallowed term in any view and no topic keyword or
\* phrase is rejected with reason OFF_TOPIC and empty matched_terms, also when
\* an injection pattern matches it.
C5_OffTopicBeforeInjection ==
    (Validated /\ contains_banned_words(d_text) = {} /\ ~HasTopicTerm(d_text)) =>
        d_out = Verdict(FALSE, {}, OFF_TOPIC)

\* an off-topic text that an injection pattern matches
C5_Witness ==
    /\ Validated
    /\ contains_banned_words(d_text) = {}
    /\ ~HasTopicTerm(d_text)
    /\ MatchesInjectionPattern(d_text)
    /\ d_out.reason = OFF_TOPIC

\* C6: a text with a topic keyword or phrase, no disallowed term in any view
\* and no injection match is accepted: is_safe, reason SAFE, no matched_terms.
C6_SafeAccepted ==
    (/\ Validated
     /\ HasTopicTerm(d_text)
     /\ contains_banned_words(d_text) = {}
     /\ ~MatchesInjectionPattern(d_text)) =>
        d_out = Verdict(TRUE, {}, SAFE)

\* an accepted text that holds a topic phrase and no topic keyword
C6_Witness ==
    /\ Validated
    /\ \E phrase \in Range(get_legal_phrases) : Contains(Lower(d_text), phrase)
    /\ \A keyword \in Range(get_legal_keywords) : ~Contains(Lower(d_text), keyword)
    /\ d_out = Verdict(TRUE, {}, SAFE)

\* C7: a text that an injection pattern matches (case-insensitively, on the
\* raw text) is rejected; the reason is INJECTION_DETECTED with empty
\* matched_terms exactly when no disallowed term matches and the text is
\* topically relevant.
C7_InjectionRejected ==
    (Validated /\ MatchesInjectionPattern(d_text)) =>
        /\ ~d_out.is_safe
        /\ (d_out.reason = INJECTION_DETECTED /\ d_out.banned_words_found = {})
             <=> (contains_banned_words(d_text) = {} /\ HasTopicTerm(d_text))

\* an injection phrasing in mixed case, rejected as an injection
C7_Witness ==
    /\ Validated
    /\ MatchesInjectionPattern(d_text)
    /\ Lower(d_text) # d_text
    /\ d_out = Verdict(FALSE, {}, INJECTION_DETECTED)

\* T occurs in s between non-word characters or the ends of s
OccursBounded(T, s) ==
    \E p \in 1..(Len(s) - Len(T) + 1) :
        /\ SubSeq(s, p, p + Len(T) - 1) = T
        /\ p = 1 \/ ~IsWordChar(s[p - 1])
        /\ p + Len(T) - 1 = Len(s) \/ ~IsWordChar(s[p + Len(T)])

\* C8: a lexicon term that occurs in the text between non-word characters or
\* the ends of the text is in the result of contains_banned_words, spelled as
\* in the lexicon.
C8_BoundedTermDetected ==
    Detected => \A T \in BannedWords : OccursBounded(T, d_text) => T \in d_out

\* the phrase of the lexicon, found between two non-word characters
C8_Witness ==
    /\ Detected
    /\ \E T \in BannedWords :
          /\ \E i \in 1..Len(T) : IsSpace(T[i])
          /\ OccursBounded(T, d_text)
          /\ Len(d_text) = Len(T) + 2
          /\ T \in d_out

\* the separators that may be inserted: space, hyphen, underscore, period
IsInsertedSeparator(c) == c \in {" ", "-", "_", "."}

\* s is T with one separator between every two characters of T
IsSpacedOut(T, s) ==
    /\ Len(s) = 2 * Len(T) - 1
    /\ \A i \in 1..Len(T) : s[2 * i - 1] = T[i]
    /\ \A i \in 1..(Len(T) - 1) : IsInsertedSeparator(s[2 * i])

\* C9: for every lexicon term T, also one that holds a separator itself, a text
\* with a separator between every two characters of T yields T.
C9_SpacedOutTermDetected ==
    Detected => \A T \in BannedWords : IsSpacedOut(T, d_text) => T \in d_out

\* what holds of the code: the terms that hold no separator are found
C9_SpacedOutWordDetected ==
    Detected =>
        \A T \in BannedWords :
            (IsSpacedOut(T, d_text) /\ \A i \in 1..Len(T) : ~IsSeparator(T[i])) => T \in d_out

\* s is T with some letters replaced by a look-alike of the leetspeak table
IsLeetVariant(T, s) ==
    /\ Len(s) = Len(T)
    /\ \A i \in 1..Len(T) : s[i] = T[i] \/ <<s[i], T[i]>> \in Range(leet_map)

\* C10: for every lexicon term T, a text that holds T with any of its letters
\* replaced by their look-alikes of the leetspeak table yields T.
C10_LeetVariantDetected ==
    Detected =>
        \A T \in BannedWords :
            (\E p \in 1..(Len(d_text) - Len(T) + 1) :
                IsLeetVariant(T, SubSeq(d_text, p, p + Len(T) - 1))) => T \in d_out

\* the phrase of the lexicon with a digit for a letter, inside a longer text
C10_Witness ==
    /\ Detected
    /\ \E T \in BannedWords : \E p \in 1..(Len(d_text) - Len(T) + 1) :
          /\ IsLeetVariant(T, SubSeq(d_text, p, p + Len(T) - 1))
          /\ SubSeq(d_text, p, p + Len(T) - 1) # T
          /\ ~Contains(d_text, T)
          /\ Len(T) = 3
          /\ T \in d_out

(***************************************************************************)
(* Properties of the endpoint (Spec).                                      *)
(***************************************************************************)
\* the detector finds a term in the reply the backend generated
ReplyUnsafe ==
    /\ backend.kind = "returned"
    /\ contains_banned_words(_call_openai(backend.generated).content) # {}

\* C2: a generated reply in which the detector finds a term is never returned:
\* generate_response gives an error result tagged response_validation_failed
\* that carries the matched terms, and the endpoint answers 500 with status
\* validation_error and no reply text, although the request was judged SAFE.
C2_UnsafeReplyNeverReturned ==
    (pc = "responded" /\ ReplyUnsafe) =>
        /\ verdict = Verdict(TRUE, {}, SAFE)
        /\ "error" \in DOMAIN response_data
        /\ response_data.error = RESPONSE_VALIDATION_FAILED
        /\ response_data.banned_words
             = contains_banned_words(_call_openai(backend.generated).content)
        /\ response_data.content = APOLOGY_REJECTED
        /\ response.status_code = 500
        /\ response.body.status = "validation_error"
        /\ "advice" \notin DOMAIN response.body

\* an unsafe reply to a safe request, answered 500
C2_Witness ==
    /\ pc = "responded"
    /\ ReplyUnsafe
    /\ verdict.is_safe
    /\ response.status_code = 500
    /\ response.body.banned_words_found # {}

\* C3: the backend is called only after the gate accepted the inbound text; a
\* request with a rejecting verdict is answered without any backend call.
C3_BackendOnlyAfterAccept ==
    /\ (pc = "backend" \/ backend_calls > 0 \/ backend # NoCall) =>
          /\ verdict = validate_input_safety(input_prompt)
          /\ verdict = Verdict(TRUE, {}, SAFE)
    /\ verdict.reason \in {BANNED_CONTENT, OFF_TOPIC, INJECTION_DETECTED} =>
          /\ pc = "responded"
          /\ response = RejectionResponse(verdict)
          /\ response.status_code = 403
          /\ backend_calls = 0
          /\ backend = NoCall

\* a request rejected as a prompt injection, answered without a backend call
C3_Witness ==
    /\ pc = "responded"
    /\ verdict.reason = INJECTION_DETECTED
    /\ response.status_code = 403
    /\ backend_calls = 0

\* C4: an exception of the backend call becomes an error result (key error,
\* model "error", the apology) and a 500 response, and is reported as a
\* backend failure, not as a rejection of the backend's output.
C4_BackendFailureReportedDistinctly ==
    (pc = "responded" /\ backend.kind = "raised") =>
        /\ "error" \in DOMAIN response_data
        /\ response_data.model = "error"
        /\ response_data.content = APOLOGY_UNABLE
        /\ response.status_code = 500
        /\ response.body.error = "Service temporarily unavailable"
        /\ response.body.error # "Response validation failed"

\* what holds of the code: the conversion to an error result and a 500, and the
\* distinct report for every message but the tag of a rejected output
C4_BackendFailureCaught ==
    (pc = "responded" /\ backend.kind = "raised") =>
        /\ "error" \in DOMAIN response_data
        /\ response_data.error = backend.message
        /\ response_data.model = "error"
        /\ response_data.content = APOLOGY_UNABLE
        /\ response.status_code = 500
        /\ backend.message # RESPONSE_VALIDATION_FAILED =>
              response.body.error = "Service temporarily unavailable"
(***************************************************************************)
(* Properties of the detectors as functions (SpecDetect).                  *)
(***************************************************************************)
\* the characters that str.lower() sends where it sends c
CaseVariants(c) == {x \in Letters \cup {c} : LowerChar(x) = LowerChar(c)}

RECURSIVE Recasings(_)
\* the texts that differ from s in the case of letters only
Recasings(s) ==
    IF s = <<>> THEN {<<>>}
    ELSE {<<x>> \o rest : x \in CaseVariants(Head(s)), rest \in Recasings(Tail(s))}

\* C11: contains_banned_words is case-insensitive: every re-casing of a text
\* gets the result the text gets.  Every text is a re-casing of its
\* lower-case form, so the texts are compared with their lower-case form.
C11_CaseInsensitive ==
    (Detected /\ d_text = Lower(d_text)) =>
        \A t \in Recasings(d_text) : contains_banned_words(t) = d_out

\* a term found in a lower-case text that has re-casings
C11_Witness ==
    /\ Detected
    /\ d_text = Lower(d_text)
    /\ d_out # {}
    /\ \E t \in Recasings(d_text) : t # d_text /\ contains_banned_words(t) = d_out

TopicChecked == d_fn = "is_legal_topic"

\* C17: is_legal_topic is true exactly when the lowercased text holds a topic
\* keyword or a topic phrase as a plain substring, in whatever order the
\* terms are tried and with no word boundary asked for.
C17_TopicIffSubstring ==
    TopicChecked => (d_out <=> HasTopicTerm(d_text))

\* a text found relevant whose only topic terms sit inside longer words
C17_Witness ==
    /\ TopicChecked
    /\ d_out = TRUE
    /\ \A term \in Range(get_legal_keywords) \cup Range(get_legal_phrases) :
         ~OccursBounded(term, Lower(d_text))

\* the table applied to one character
FoldChar(c) ==
    IF \E i \in 1..Len(leet_map) : leet_map[i][1] = c
    THEN leet_map[CHOOSE i \in 1..Len(leet_map) : leet_map[i][1] = c][2]
    ELSE c

\* the leetspeak table applied in one pass, character by character
SinglePassFold(s) == [i \in 1..Len(s) |-> FoldChar(s[i])]

\* the keys of the table and what they are replaced by
LeetKeys == {leet_map[i][1] : i \in 1..Len(leet_map)}
LeetNormals == {leet_map[i][2] : i \in 1..Len(leet_map)}

\* C18: folding leetspeak twice gives what folding once gives, and so does
\* stripping separators; the replace passes done one after the other give
\* what one pass over the characters gives, no replacement of the table
\* being a key of the table.
C18_NormalizersIdempotent ==
    Detected =>
        /\ FoldLeetspeak(FoldLeetspeak(d_text)) = FoldLeetspeak(d_text)
        /\ StripSeparators(StripSeparators(d_text)) = StripSeparators(d_text)
        /\ FoldLeetspeak(d_text) = SinglePassFold(d_text)
        /\ LeetKeys \cap LeetNormals = {}

\* contains_banned_words ran on a text that both normalizers change, with
\* two leetspeak characters in it
C18_Witness ==
    /\ Detected
    /\ \E i, j \in 1..Len(d_text) : i # j /\ d_text[i] = "4" /\ d_text[j] = "4"
    /\ FoldLeetspeak(Lower(d_text)) # Lower(d_text)
    /\ StripSeparators(Lower(d_text)) # Lower(d_text)

\* the lexicon terms with no key of the leetspeak table in them
TermsWithoutLeet == {T \in BannedWords : Range(T) \cap LeetKeys = {}}

\* C23: the word boundaries of the direct pass do not narrow the result: for a
\* term without leetspeak characters, a match of the direct pass is a match
\* of the leetspeak pass too, and the term is reported whenever it is a plain
\* substring of the lowercased text, inside a longer word as well.
C23_WholeWordNeverNarrows ==
    Detected =>
        \A T \in TermsWithoutLeet :
            /\ T \in DirectMatches(Lower(d_text)) => T \in _check_leetspeak(Lower(d_text))
            /\ Contains(Lower(d_text), T) => T \in d_out

\* a term reported that sits inside a longer word, where the direct pass
\* does not match it
C23_Witness ==
    /\ Detected
    /\ \E T \in TermsWithoutLeet :
         /\ Contains(Lower(d_text), T)
         /\ T \notin DirectMatches(Lower(d_text))
         /\ T \in _check_leetspeak(Lower(d_text))
         /\ T \in d_out

(***************************************************************************)
(* Properties of the lexicon getters (SpecLexicon).                        *)
(***************************************************************************)
LoadFails == {"missing", "malformed"}

\* C12: concurrent first callers of a getter do not load twice: load_word_list
\* builds at most one list per file, and all callers of the getter of one
\* file hold the same list object.
C12_SingleFlight ==
    /\ \A f \in LexiconFiles : l_loaded[f] <= 1
    /\ \A t, u \in Threads :
         (l_th[t].result.file # "none" /\ l_th[t].result.file = l_th[u].result.file)
            => l_th[t].result = l_th[u].result

\* C13: once a getter's cache holds a list, it holds that list for good, a
\* call of the getter returns that very object without a call of
\* load_word_list, whatever the file holds by then, and storing one list
\* leaves the other two caches alone.
C13_FirstLoadWins ==
    [][\A f \in LexiconFiles :
         /\ CacheHit(l_cache[f]) =>
              /\ l_cache'[f] = l_cache[f]
              /\ \A t \in Threads :
                   (l_th[t].pc = "lookup" /\ Head(l_th[t].calls) = f /\ l_th'[t] # l_th[t])
                      => /\ l_th'[t].result = l_cache[f]
                         /\ l_th'[t].pc # "load"
                         /\ l_loaded' = l_loaded
         /\ l_cache'[f] # l_cache[f] =>
              \A g \in LexiconFiles \ {f} : l_cache'[g] = l_cache[g]]_vars

\* a call that made no read returned the cached list of a file that has
\* changed since, while another list is not cached yet
C13_Witness ==
    \E t \in Threads, f \in LexiconFiles :
        /\ CacheHit(l_cache[f])
        /\ l_source[f] # l_cache[f].data
        /\ l_th[t].result = l_cache[f]
        /\ l_th[t].read = "none"
        /\ \E g \in LexiconFiles : ~CacheHit(l_cache[g])

\* C14: a load from a missing, a malformed or an empty source ends in a load
\* error and hands no list to the caller.
C14_BadSourceFailsToLoad ==
    \A t \in Threads :
        l_th[t].read \in LoadFails \cup {"empty"} =>
            l_th[t].pc = "done" /\ l_th[t].out = "raised"

\* the part of C14 that the loader keeps: a missing or malformed source raises
C14_MissingOrMalformedRaises ==
    \A t \in Threads :
        l_th[t].read \in LoadFails => l_th[t].pc = "done" /\ l_th[t].out = "raised"

\* C15: a process that found a lexicon file missing or corrupt at startup
\* never gets to hand out a verdict on a request.
C15_LoadFailureFatalAtStartup ==
    l_boot_bad # {} => \A t \in Threads : l_th[t].out # "verdict"

Rejected == verdict # NoVerdict /\ ~verdict.is_safe

Parsed == i_out # NotParsed

\* the prompt is empty or blank, or longer than the limit once trimmed
PromptOutOfShape(raw) == Strip(raw) = <<>> \/ Len(Strip(raw)) > MAX_INPUT_LENGTH

\* the user_id holds a character that is no letter, digit, hyphen or underscore
UserIdOutOfShape(v) == \E i \in 1..Len(v) : ~IsUserIdChar(v[i])

\* C20: a body whose input_prompt is empty or blank or, trimmed, longer than
\* MAX_INPUT_LENGTH, or whose user_id holds a character other than a letter,
\* a digit, a hyphen or an underscore, is answered 422 and not accepted; a
\* prompt of exactly MAX_INPUT_LENGTH characters is within the limit.
C20_IntakeRejects ==
    Parsed =>
        /\ (PromptOutOfShape(i_prompt) \/ UserIdOutOfShape(i_user_id)) =>
              (~i_out.accepted /\ i_out.status_code = 422)
        /\ (/\ Len(Strip(i_prompt)) = MAX_INPUT_LENGTH
            /\ ~UserIdOutOfShape(i_user_id)
            /\ i_user_id # <<>>) => i_out.accepted

\* the part of C20 about input_prompt, with the user_id left aside: a prompt
\* out of shape is answered 422 and a trimmed prompt of one to
\* MAX_INPUT_LENGTH characters passes with a well-formed user_id
C20_PromptShapeEnforced ==
    Parsed =>
        /\ PromptOutOfShape(i_prompt) => (~i_out.accepted /\ i_out.status_code = 422)
        /\ (~PromptOutOfShape(i_prompt) /\ ~UserIdOutOfShape(i_user_id) /\ i_user_id # <<>>)
              => (i_out.accepted /\ i_out.input_prompt = Strip(i_prompt))

\* the order of C20, at the endpoint: a request answered 422 never reached
\* the gate, the lexicon or the backend
C20_RejectedBeforeGate ==
    (pc = "responded" /\ response = UnprocessableEntity) =>
        /\ verdict = NoVerdict
        /\ backend_calls = 0
        /\ backend = NoCall

(***************************************************************************)
(* Properties of the endpoint's success path (Spec).                       *)
(***************************************************************************)
\* the backend returned a reply in which the detector finds nothing
ReplyClean ==
    /\ backend.kind = "returned"
    /\ contains_banned_words(_call_openai(backend.generated).content) = {}

\* C21: a generated reply in which contains_banned_words finds nothing is
\* passed on as it is: generate_response returns the backend's result with
\* no error key and the endpoint answers 200 with the reply as advice,
\* whatever the relevance check and the injection check would say of it.
C21_OnlyBannedCheckOnReply ==
    (pc = "responded" /\ ReplyClean) =>
        /\ response_data = _call_openai(backend.generated)
        /\ "error" \notin DOMAIN response_data
        /\ response.status_code = 200
        /\ response.body.status = "success"
        /\ response.body.advice = _call_openai(backend.generated).content
        /\ response.body.model_used = OPENAI_MODEL

\* a reply that is off-topic and that an injection pattern matches, sent as
\* advice with status 200
C21_Witness ==
    /\ pc = "responded"
    /\ ReplyClean
    /\ ~HasTopicTerm(_call_openai(backend.generated).content)
    /\ MatchesInjectionPattern(_call_openai(backend.generated).content)
    /\ response.status_code = 200
    /\ response.body.advice = _call_openai(backend.generated).content

\* the detail texts of the error bodies, none of them built from a reply
ErrorDetails ==
    {OFF_TOPIC_RESPONSE, REJECTED_RISKY_INPUT_RESPONSE,
     "Generated response contains prohibited content",
     "Unable to process request at this time",
     "An unexpected error occurred"}

\* C22: a 200 response with generated text is sent only when the inbound
\* verdict was SAFE, then the one backend call returned, then the detector
\* found nothing in the reply; every other response is a 4xx/5xx error body
\* with no advice, whose detail is a fixed text and whose banned_words_found
\* holds lexicon terms only.
C22_SuccessOnlyAfterAllChecks ==
    pc = "responded" =>
        IF response.status_code = 200
        THEN /\ verdict = Verdict(TRUE, {}, SAFE)
             /\ verdict = validate_input_safety(input_prompt)
             /\ backend_calls = 1
             /\ ReplyClean
             /\ response.body.advice = _call_openai(backend.generated).content
        ELSE /\ response.status_code \in {403, 422, 500}
             /\ "advice" \notin DOMAIN response.body
             /\ "detail" \in DOMAIN response.body => response.body.detail \in ErrorDetails
             /\ "banned_words_found" \in DOMAIN response.body =>
                   \/ response.body.banned_words_found = None
                   \/ response.body.banned_words_found \subseteq BannedWords

\* a success response, after verdict, backend call and reply check
C22_Witness ==
    /\ pc = "responded"
    /\ response.status_code = 200
    /\ verdict.is_safe
    /\ backend_calls = 1
    /\ ReplyClean
    /\ response.body.advice # <<>>

\* the one response to every rejection without matched terms
ScopeRejection == ErrorResponse(403, "Request outside supported scope", OFF_TOPIC_RESPONSE)

Moved(t) == l_th'[t] # l_th[t]

\* C25: a failed load is not memoized.  A getter call that misses the cache
\* always goes on to read the source; a read of a missing or malformed source
\* raises, stores nothing, is answered with status 500 and leaves the process
\* serving; a read of a source that parses returns its data and is stored; and
\* an entry of the cache, never a failure, stays what it is.
C25_FailedLoadNotMemoized ==
    [][/\ \A f \in LexiconFiles :
             CacheHit(l_cache[f]) => l_cache[f].data \in {"ok", "empty"} /\ l_cache'[f] = l_cache[f]
       /\ \A t \in Threads :
             LET th == l_th[t]
                 f == Head(th.calls)
             IN /\ (th.pc = "lookup" /\ Moved(t) /\ ~CacheHit(l_cache[f])) =>
                        l_th'[t].pc = "load"
                /\ (th.pc = "load" /\ Moved(t)) =>
                        /\ l_th'[t].read = l_source[f]
                        /\ IF l_source[f] \in LoadFails
                           THEN /\ l_th'[t].pc = "done"
                                /\ l_th'[t].out = "raised"
                                /\ l_th'[t].status_code = 500
                                /\ l_cache' = l_cache
                                /\ l_phase' = "serving"
                           ELSE /\ l_th'[t].pc = "store"
                                /\ l_th'[t].result.data = l_source[f]
                /\ (th.pc = "store" /\ Moved(t)) =>
                        /\ CacheHit(l_cache'[f])
                        /\ ~CacheHit(l_cache[f]) => l_cache'[f] = th.result]_vars

\* One thread's call of a getter raised on a file that was missing or
\* malformed since startup and was answered with 500; the file was put back,
\* and the other thread's call of the same getter loaded the list, which the
\* cache now holds, and got its verdict.
C25_Witness ==
    \E t \in Threads, u \in Threads, f \in LexiconFiles :
        /\ t # u
        /\ l_phase = "serving"
        /\ f \in l_boot_bad
        /\ l_th[t].pc = "done" /\ l_th[t].out = "raised"
        /\ Head(l_th[t].calls) = f
        /\ l_th[t].read \in LoadFails
        /\ l_th[t].status_code = 500
        /\ l_source[f] = "ok"
        /\ l_cache[f] = ListObject(f, 1, "ok")
        /\ l_th[u].pc = "done" /\ l_th[u].out = "verdict"
=============================================================================
